---- MODULE Spec2Model ----
(***************************************************************************)
(* Example programs of the design-patterns repository:                     *)
(*   - the phone-call machine driven by a table of rules                   *)
(*     (20_state/01_classic_implementation.go, second program)             *)
(*   - the combination lock driven by a switch                             *)
(*     (20_state/03_switch_based_state.go)                                 *)
(*   - bank account commands and the money transfer (Command)              *)
(*   - property observers (19_observer/02, 19_observer/03)                 *)
(*   - creature modifiers: broker chain and method chain                   *)
(*   - the lazily initialised singleton database                           *)
(*   - the lazy bitmap (virtual proxy)                                     *)
(* The two state machines are single-threaded loops around a blocking      *)
(* read; one action of the model is one iteration of the loop.  For the    *)
(* other programs one action is one call of an operation by the client.    *)
(* The programs are separate processes: each has its own specification,    *)
(* in which the variables of the others keep their initial values.         *)
(***************************************************************************)
EXTENDS Integers, Sequences, FiniteSets, TLC

VARIABLES
    state,      \* phone: main's local `state`
    input,      \* phone: the line last returned by ReadLine (a sequence of characters)
    i,          \* phone: main's local `i`, the result of strconv.Atoi
    tr,         \* phone: main's local `tr`, the TriggerResult last looked up
    phonePc,    \* phone: "loop" inside the for loop, "done" after it, "panic" after a run-time panic
    lockState,  \* lock: main's local `state`
    entry,      \* lock: the contents of the strings.Builder `entry`
    failedPrints, \* lock: how many times "FAILED" was printed, counted up to MaxFailedPrints
    lockPc      \* lock: "loop" inside the for loop, "done" after the return

VARIABLES
    balance,    \* bank: the balance of every BankAccount
    commands,   \* bank: the BankAccountCommands the client has created, in order of creation
    mtc,        \* bank: the MoneyTransferCommand the client has created, or NoTransfer
    bankOp      \* bank: the operation the client called last, with its result

phoneVars == <<state, input, i, tr, phonePc>>
lockVars == <<lockState, entry, failedPrints, lockPc>>
VARIABLES
    tmSubs,     \* observer/02: the Person's list of subscribers
    tmAge,      \* observer/02: the Person's age
    tmCongrats, \* observer/02: how many times "Grats, you can drive now!" was printed, counted up to MaxCongrats
    tmOp        \* observer/02: the operation the client called last, and how many Notify calls it made

VARIABLES
    erSubs,     \* observer/03: the Person's list of subscribers
    erAge,      \* observer/03: the Person's age
    erFired,    \* observer/03: the PropertyChanges the last operation passed to Fire, in order
    erNotified, \* observer/03: the Notify calls the last operation made, in order
    erOp        \* observer/03: the operation the client called last

VARIABLES
    creatures,  \* broker chain: the creatures made by NewCreature (Name, attack, defense), all in the one game
    modifiers,  \* broker chain: for every DoubleAttackModifier made, the creature it was made for
    observers,  \* broker chain: Game.observers, the modifiers subscribed
    brQuery     \* broker chain: the last call of Attack or Defense and its result, while nothing else was called since

VARIABLES
    chain,      \* method chain: the modifiers linked behind the root, in list order
    goblin,     \* method chain: the creature (Attack, Defense)
    chainOp     \* method chain: the operation the client called last

VARIABLES
    oncePc,     \* singleton: where every goroutine stands in GetSingletonDB
    onceDone,   \* singleton: once.done
    onceM,      \* singleton: the goroutine holding once.m, 0 for none
    instance,   \* singleton: the package variable instance
    inits,      \* singleton: how many times instance was assigned
    ret,        \* singleton: what the last finished call of every goroutine returned
    crashed     \* singleton: an unrecovered panic ended the program

VARIABLES
    lazies,     \* virtual proxy: the LazyBitmaps made (filename, bitmap)
    out         \* virtual proxy: the lines printed so far

bankVars == <<balance, commands, mtc, bankOp>>
proxyVars == <<lazies, out>>
onceVars == <<oncePc, onceDone, onceM, instance, inits, ret, crashed>>
chainVars == <<chain, goblin, chainOp>>
brokerVars == <<creatures, modifiers, observers, brQuery>>
tmVars == <<tmSubs, tmAge, tmCongrats, tmOp>>
erVars == <<erSubs, erAge, erFired, erNotified, erOp>>
\* all variables, and for every program the variables of the other programs
vars == <<phoneVars, lockVars, bankVars, tmVars, erVars, brokerVars, chainVars, onceVars, proxyVars>>
notPhoneVars == <<lockVars, bankVars, tmVars, erVars, brokerVars, chainVars, onceVars, proxyVars>>
notLockVars == <<phoneVars, bankVars, tmVars, erVars, brokerVars, chainVars, onceVars, proxyVars>>
notBankVars == <<phoneVars, lockVars, tmVars, erVars, brokerVars, chainVars, onceVars, proxyVars>>
notTmVars == <<phoneVars, lockVars, bankVars, erVars, brokerVars, chainVars, onceVars, proxyVars>>
notErVars == <<phoneVars, lockVars, bankVars, tmVars, brokerVars, chainVars, onceVars, proxyVars>>
notBrokerVars == <<phoneVars, lockVars, bankVars, tmVars, erVars, chainVars, onceVars, proxyVars>>
notChainVars == <<phoneVars, lockVars, bankVars, tmVars, erVars, brokerVars, onceVars, proxyVars>>
notOnceVars == <<phoneVars, lockVars, bankVars, tmVars, erVars, brokerVars, chainVars, proxyVars>>
notProxyVars == <<phoneVars, lockVars, bankVars, tmVars, erVars, brokerVars, chainVars, onceVars>>

----------------------------------------------------------------------------
(* Bounds of the model *)

\* longest line the user types at the phone prompt
MaxLineLen == 2

\* the count of printed "FAILED" lines saturates here
MaxFailedPrints == 3

\* the balances followed: no operation is taken past MaxBalance or -MaxBalance
MaxBalance == 600

\* the most BankAccountCommands the client creates
MaxCommands == 1

\* the longest list of subscribers of a Person
MaxSubs == 3

\* the count of printed "Grats, you can drive now!" lines saturates here
MaxCongrats == 3

\* the most creatures and the most modifiers made in the game
MaxCreatures == 2
MaxModifiers == 2

\* the most modifiers added to the root
MaxChain == 3

\* root.Handle() is not called again once the creature's Attack or Defense is above these
MaxAttack == 4
MaxDefense == 3

\* the goroutines calling GetSingletonDB
MaxGoroutines == 2

\* the most LazyBitmaps made, and the most lines printed
MaxLazies == 2
MaxOutput == 6

----------------------------------------------------------------------------
(* Phone call: states, triggers and the rules table *)

OffHook == "OffHook"
Connecting == "Connecting"
Connected == "Connected"
OnHold == "OnHold"
OnHook == "OnHook"

States == {OffHook, Connecting, Connected, OnHold, OnHook}

CallDialed == "CallDialed"
HungUp == "HungUp"
CallConnected == "CallConnected"
PlacedOnHold == "PlacedOnHold"
TakenOffHold == "TakenOffHold"
LeftMessage == "LeftMessage"

Triggers == {CallDialed, HungUp, CallConnected, PlacedOnHold, TakenOffHold, LeftMessage}

TriggerResult(t, s) == [Trigger |-> t, State |-> s]

\* a table in which Connected declares HungUp twice, with different destinations
rulesDuplicateTrigger ==
    (OffHook :> << TriggerResult(CallDialed, Connecting) >>)
 @@ (Connecting :> << TriggerResult(HungUp, OnHook),
                      TriggerResult(CallConnected, Connected) >>)
 @@ (Connected :> << TriggerResult(LeftMessage, OnHook),
                     TriggerResult(HungUp, OnHook),
                     TriggerResult(HungUp, OnHold) >>)
 @@ (OnHold :> << TriggerResult(TakenOffHold, Connected),
                  TriggerResult(HungUp, OnHook) >>)

\* a table in which hanging up while on hold only resumes the call
rulesHoldNeverEnds ==
    (OffHook :> << TriggerResult(CallDialed, Connecting) >>)
 @@ (Connecting :> << TriggerResult(HungUp, OnHook),
                      TriggerResult(CallConnected, Connected) >>)
 @@ (Connected :> << TriggerResult(PlacedOnHold, OnHold) >>)
 @@ (OnHold :> << TriggerResult(TakenOffHold, Connected),
                  TriggerResult(HungUp, Connected) >>)

\* var rules = map[State][]TriggerResult{...}; OnHook is not a key of the map
rules ==
    (OffHook :> << TriggerResult(CallDialed, Connecting) >>)
 @@ (Connecting :> << TriggerResult(HungUp, OnHook),
                      TriggerResult(CallConnected, Connected) >>)
 @@ (Connected :> << TriggerResult(LeftMessage, OnHook),
                     TriggerResult(HungUp, OnHook),
                     TriggerResult(PlacedOnHold, OnHold) >>)
 @@ (OnHold :> << TriggerResult(TakenOffHold, Connected),
                  TriggerResult(HungUp, OnHook) >>)

\* rules[s] in Go: the slice stored under s, or the nil slice when s is no key
RulesAt(s) == IF s \in DOMAIN rules THEN rules[s] ELSE << >>

\* the driver stops at the first state other than the one it started in
exitStateConnecting == Connecting

\* state, exitState := OffHook, OnHook
initialState == OffHook
exitState == OnHook

----------------------------------------------------------------------------
(* Phone call: the line typed by the user and its conversion to an index *)

Digits == {"0", "1", "2", "3"}
Chars == Digits \cup {"-", "x"}

DigitVal(c) == CASE c = "0" -> 0 [] c = "1" -> 1 [] c = "2" -> 2 [] c = "3" -> 3

\* the lines ReadLine can return: the empty line (also the result at end of
\* input) and every line of at most MaxLineLen characters
Lines == UNION { [1..n -> Chars] : n \in 0..MaxLineLen }

RECURSIVE ParseDigits(_, _)
\* the digit loop of strconv.Atoi: n = n*10 + digit; -1 stands for a syntax error
ParseDigits(s, n) ==
    IF s = << >> THEN n
    ELSE IF Head(s) \notin Digits THEN -1
    ELSE ParseDigits(Tail(s), n * 10 + DigitVal(Head(s)))

\* strconv.Atoi: [val, err]; an optional sign (of the two signs only "-" is
\* among Chars), then one or more digits; every syntax error yields the value 0
Atoi(s) ==
    LET neg == s /= << >> /\ Head(s) = "-"
        body == IF neg THEN Tail(s) ELSE s
        n == ParseDigits(body, 0)
    IN  IF body = << >> \/ n < 0 THEN [val |-> 0, err |-> TRUE]
        ELSE [val |-> IF neg THEN -n ELSE n, err |-> FALSE]

DigitChar(d) ==
    CASE d = 0 -> "0" [] d = 1 -> "1" [] d = 2 -> "2" [] d = 3 -> "3" [] d = 4 -> "4"
      [] d = 5 -> "5" [] d = 6 -> "6" [] d = 7 -> "7" [] d = 8 -> "8" [] d = 9 -> "9"

RECURSIVE Itoa(_)
\* strconv.Itoa of a number >= 0: its decimal digits, as printed in the menu
Itoa(n) == IF n < 10 THEN << DigitChar(n) >> ELSE Append(Itoa(n \div 10), DigitChar(n % 10))

\* the menu printed for state s: entry k is the line "k . <trigger>"
Menu(s) == [k \in 0..(Len(RulesAt(s)) - 1) |-> [label |-> Itoa(k), Trigger |-> RulesAt(s)[k + 1].Trigger]]

\* i, _ := strconv.Atoi(string(input)): the error is discarded
IndexOfLine(line) == Atoi(line).val

\* the bounds check of the slice index expression rules[state][i]
InRange(s, k) == 0 <= k /\ k < Len(RulesAt(s))

\* the rule is looked up under Connected whatever the current state is
LookupUnderConnected(s, k) == RulesAt(Connected)[k + 1]

\* tr := rules[state][i] (Go indexes from 0)
Lookup(s, k) == RulesAt(s)[k + 1]

NoTriggerResult == [Trigger |-> "none", State |-> "none"]

----------------------------------------------------------------------------
(* Phone call: the driver loop *)

PhoneInit ==
    /\ state = initialState
    /\ input = << >>
    /\ i = 0
    /\ tr = NoTriggerResult
    /\ phonePc = "loop"

\* one iteration of the loop in which the index expression is in range:
\* read a line, convert it, look the rule up, move, test the loop condition
PhoneSelect(line) ==
    /\ phonePc = "loop"
    /\ InRange(state, IndexOfLine(line))
    /\ input' = line
    /\ i' = IndexOfLine(line)
    /\ tr' = Lookup(state, IndexOfLine(line))
    /\ state' = Lookup(state, IndexOfLine(line)).State
    /\ phonePc' = IF Lookup(state, IndexOfLine(line)).State /= exitState THEN "loop" ELSE "done"
    /\ UNCHANGED notPhoneVars

\* one iteration of the loop in which rules[state][i] is out of range: the
\* Go run time panics and the process ends; state and tr keep their values
PhonePanic(line) ==
    /\ phonePc = "loop"
    /\ ~InRange(state, IndexOfLine(line))
    /\ input' = line
    /\ i' = IndexOfLine(line)
    /\ phonePc' = "panic"
    /\ UNCHANGED <<state, tr>>
    /\ UNCHANGED notPhoneVars

----------------------------------------------------------------------------
(* Combination lock *)

Locked == "Locked"
Failed == "Failed"
Unlocked == "Unlocked"

\* code := "1234"
code == <<"1", "2", "3", "4">>

\* the runes ReadRune can return: digits of the code, other digits, and
\* the rune 0 it returns together with an error at end of input
Runes == {"0", "1", "2", "3", "4", "5", "NUL"}

\* the first index (from 0) at which substr occurs in s, -1 when it does not occur
Index(s, substr) ==
    LET hits == { k \in 0..(Len(s) - Len(substr)) :
                    SubSeq(s, k + 1, k + Len(substr)) = substr }
    IN  IF hits = {} THEN -1 ELSE CHOOSE k \in hits : \A j \in hits : k <= j

\* the entry is accepted when it occurs anywhere in the code
WrongEntryContains(e) == Index(code, e) < 0

\* strings.Index(code, entry.String()) != 0
WrongEntry(e) == Index(code, e) /= 0

\* the entry is accepted as soon as it has the length of the code
RightEntryByLength(e) == Len(e) = Len(code)

\* entry.String() == code
RightEntry(e) == e = code

\* the builder keeps its contents
ResetKeeps(e) == e

\* entry.Reset()
Reset(e) == << >>

LockInit ==
    /\ lockState = Locked
    /\ entry = << >>
    /\ failedPrints = 0
    /\ lockPc = "loop"

\* case Locked: read a rune, append it, compare
LockedStep(r) ==
    /\ lockPc = "loop"
    /\ lockState = Locked
    /\ entry' = Append(entry, r)
    /\ lockState' = IF RightEntry(Append(entry, r)) THEN Unlocked
                    ELSE IF WrongEntry(Append(entry, r)) THEN Failed
                    ELSE Locked
    /\ UNCHANGED <<failedPrints, lockPc>>
    /\ UNCHANGED notLockVars

\* case Failed: print, reset the entry, lock again
FailedStep ==
    /\ lockPc = "loop"
    /\ lockState = Failed
    /\ failedPrints' = IF failedPrints < MaxFailedPrints THEN failedPrints + 1 ELSE failedPrints
    /\ entry' = Reset(entry)
    /\ lockState' = Locked
    /\ UNCHANGED lockPc
    /\ UNCHANGED notLockVars

\* case Unlocked: print and return
UnlockedStep ==
    /\ lockPc = "loop"
    /\ lockState = Unlocked
    /\ lockPc' = "done"
    /\ UNCHANGED <<lockState, entry, failedPrints>>
    /\ UNCHANGED notLockVars

----------------------------------------------------------------------------
(* Bank account commands and the money transfer *)

\* var overdraftLimit = -500
overdraftLimit == -500

\* main: from := BankAccount{100}; to := BankAccount{0}
Accounts == {"from", "to"}
InitialBalance == [a \in Accounts |-> IF a = "from" THEN 100 ELSE 0]

\* the amounts (Go int) the client passes
Amounts == {-300, 300}

\* type Action int: Deposit, Withdraw
Deposit == "Deposit"
Withdraw == "Withdraw"

\* b.balance += amount
BankAccountDeposit(bal, a, amount) == [bal EXCEPT ![a] = @ + amount]

\* if b.balance-amount >= overdraftLimit
WithdrawAllowed(bal, a, amount) == bal[a] - amount >= overdraftLimit

\* BankAccount.Withdraw: [bal, ret]
BankAccountWithdraw(bal, a, amount) ==
    IF WithdrawAllowed(bal, a, amount)
    THEN [bal |-> [bal EXCEPT ![a] = @ - amount], ret |-> TRUE]
    ELSE [bal |-> bal, ret |-> FALSE]

\* NewBankAccountCommand: succeeded has its zero value
BankAccountCommand(a, action, amount) ==
    [account |-> a, action |-> action, amount |-> amount, succeeded |-> FALSE]

\* BankAccountCommand.Call: [bal, cmd]
BankAccountCommandCall(bal, cmd) ==
    IF cmd.action = Deposit
    THEN [bal |-> BankAccountDeposit(bal, cmd.account, cmd.amount),
          cmd |-> [cmd EXCEPT !.succeeded = TRUE]]
    ELSE [bal |-> BankAccountWithdraw(bal, cmd.account, cmd.amount).bal,
          cmd |-> [cmd EXCEPT !.succeeded = BankAccountWithdraw(bal, cmd.account, cmd.amount).ret]]

\* Undo without the test of the succeeded flag
BankAccountCommandUndoAlways(bal, cmd) ==
    IF cmd.action = Deposit
    THEN BankAccountWithdraw(bal, cmd.account, cmd.amount).bal
    ELSE BankAccountDeposit(bal, cmd.account, cmd.amount)

\* BankAccountCommand.Undo: the balances afterwards; the result of the
\* Withdraw that undoes a Deposit is dropped
BankAccountCommandUndo(bal, cmd) ==
    IF ~cmd.succeeded THEN bal
    ELSE IF cmd.action = Deposit
    THEN BankAccountWithdraw(bal, cmd.account, cmd.amount).bal
    ELSE BankAccountDeposit(bal, cmd.account, cmd.amount)

\* BankAccountCommand.SetSucceeded
SetSucceeded(cmd, value) == [cmd EXCEPT !.succeeded = value]

RECURSIVE CompositeCallFrom(_, _, _, _)
\* the transfer calls every command whatever the outcome of the one before,
\* as the Call it overrides (CompositeBankAccountCommand.Call) does
CompositeCallFrom(bal, cmds, k, ok) ==
    IF k > Len(cmds) THEN [bal |-> bal, cmds |-> cmds]
    ELSE LET r == BankAccountCommandCall(bal, cmds[k])
         IN  CompositeCallFrom(r.bal, [cmds EXCEPT ![k] = r.cmd], k + 1, ok)

RECURSIVE TransferCallFrom(_, _, _, _)
\* MoneyTransferCommand.Call from command k on, with the local `ok`
TransferCallFrom(bal, cmds, k, ok) ==
    IF k > Len(cmds) THEN [bal |-> bal, cmds |-> cmds]
    ELSE IF ok
    THEN LET r == BankAccountCommandCall(bal, cmds[k])
         IN  TransferCallFrom(r.bal, [cmds EXCEPT ![k] = r.cmd], k + 1, r.cmd.succeeded)
    ELSE TransferCallFrom(bal, [cmds EXCEPT ![k] = SetSucceeded(cmds[k], FALSE)], k + 1, ok)

RECURSIVE CompositeUndoFrom(_, _, _)
\* CompositeBankAccountCommand.Undo: the commands are undone last to first
CompositeUndoFrom(bal, cmds, k) ==
    IF k < 1 THEN bal
    ELSE CompositeUndoFrom(BankAccountCommandUndo(bal, cmds[k]), cmds, k - 1)

NoTransfer == [from |-> "none", to |-> "none", amount |-> 0, commands |-> << >>]

\* NewMoneyTransferCommand
MoneyTransferCommand(f, t, amount) ==
    [from |-> f, to |-> t, amount |-> amount,
     commands |-> << BankAccountCommand(f, Withdraw, amount),
                     BankAccountCommand(t, Deposit, amount) >>]

\* the balances the model follows
InBounds(bal) == \A a \in Accounts : -MaxBalance <= bal[a] /\ bal[a] <= MaxBalance

BankInit ==
    /\ balance = InitialBalance
    /\ commands = << >>
    /\ mtc = NoTransfer
    /\ bankOp = [op |-> "none", k |-> 0, called |-> FALSE]

\* the client deposits into an account
ClientDeposit(a, amount) ==
    /\ InBounds(BankAccountDeposit(balance, a, amount))
    /\ balance' = BankAccountDeposit(balance, a, amount)
    /\ bankOp' = [op |-> "Deposit", k |-> 0, called |-> FALSE]
    /\ UNCHANGED <<commands, mtc>>
    /\ UNCHANGED notBankVars

\* the client withdraws from an account
ClientWithdraw(a, amount) ==
    /\ InBounds(BankAccountWithdraw(balance, a, amount).bal)
    /\ balance' = BankAccountWithdraw(balance, a, amount).bal
    /\ bankOp' = [op |-> IF BankAccountWithdraw(balance, a, amount).ret
                         THEN "Withdraw" ELSE "WithdrawRefused",
                  k |-> 0, called |-> FALSE]
    /\ UNCHANGED <<commands, mtc>>
    /\ UNCHANGED notBankVars

\* the client creates a command
NewBankAccountCommand(a, action, amount) ==
    /\ Len(commands) < MaxCommands
    /\ commands' = Append(commands, BankAccountCommand(a, action, amount))
    /\ bankOp' = [op |-> "NewCommand", k |-> Len(commands) + 1, called |-> FALSE]
    /\ UNCHANGED <<balance, mtc>>
    /\ UNCHANGED notBankVars

\* cmd.Call() on the k-th command
CallCommand(k) ==
    /\ k \in 1..Len(commands)
    /\ InBounds(BankAccountCommandCall(balance, commands[k]).bal)
    /\ balance' = BankAccountCommandCall(balance, commands[k]).bal
    /\ commands' = [commands EXCEPT ![k] = BankAccountCommandCall(balance, commands[k]).cmd]
    /\ bankOp' = [op |-> "Call", k |-> k, called |-> TRUE]
    /\ UNCHANGED mtc
    /\ UNCHANGED notBankVars

\* cmd.Undo() on the k-th command; bankOp.called tells whether the call
\* before it was a Call of the same command
UndoCommand(k) ==
    /\ k \in 1..Len(commands)
    /\ InBounds(BankAccountCommandUndo(balance, commands[k]))
    /\ balance' = BankAccountCommandUndo(balance, commands[k])
    /\ bankOp' = [op |-> "Undo", k |-> k, called |-> (bankOp.op = "Call" /\ bankOp.k = k)]
    /\ UNCHANGED <<commands, mtc>>
    /\ UNCHANGED notBankVars

\* the client creates the transfer
NewMoneyTransferCommand(f, t, amount) ==
    /\ mtc = NoTransfer
    /\ mtc' = MoneyTransferCommand(f, t, amount)
    /\ bankOp' = [op |-> "NewTransfer", k |-> 0, called |-> FALSE]
    /\ UNCHANGED <<balance, commands>>
    /\ UNCHANGED notBankVars

\* mtc.Call()
TransferCall ==
    /\ mtc /= NoTransfer
    /\ InBounds(TransferCallFrom(balance, mtc.commands, 1, TRUE).bal)
    /\ balance' = TransferCallFrom(balance, mtc.commands, 1, TRUE).bal
    /\ mtc' = [mtc EXCEPT !.commands = TransferCallFrom(balance, mtc.commands, 1, TRUE).cmds]
    /\ bankOp' = [op |-> "TransferCall", k |-> 0, called |-> TRUE]
    /\ UNCHANGED commands
    /\ UNCHANGED notBankVars

\* mtc.Undo(), promoted from CompositeBankAccountCommand
TransferUndo ==
    /\ mtc /= NoTransfer
    /\ InBounds(CompositeUndoFrom(balance, mtc.commands, Len(mtc.commands)))
    /\ balance' = CompositeUndoFrom(balance, mtc.commands, Len(mtc.commands))
    /\ bankOp' = [op |-> "TransferUndo", k |-> 0, called |-> FALSE]
    /\ UNCHANGED <<commands, mtc>>
    /\ UNCHANGED notBankVars

----------------------------------------------------------------------------
(* Observable (container/list of subscribers), shared by the observer programs *)

\* the position (from 1) of the first element of the list equal to x, 0 when there is none
FirstIndexOf(subs, x) ==
    IF \E k \in 1..Len(subs) : subs[k] = x
    THEN CHOOSE k \in 1..Len(subs) : subs[k] = x /\ \A j \in 1..(k - 1) : subs[j] /= x
    ELSE 0

\* list.Remove of the element at position k
RemoveAt(subs, k) == SubSeq(subs, 1, k - 1) \o SubSeq(subs, k + 1, Len(subs))

\* Observable.Subscribe: o.subs.PushBack(x)
ObservableSubscribe(subs, x) == Append(subs, x)

\* Observable.Unsubscribe: the loop removes the first element equal to x;
\* list.Remove clears that element's links, so z.Next() is nil and the loop ends there
ObservableUnsubscribe(subs, x) ==
    IF FirstIndexOf(subs, x) = 0 THEN subs ELSE RemoveAt(subs, FirstIndexOf(subs, x))

----------------------------------------------------------------------------
(* Property observers: Person.SetAge and TrafficMenagement (19_observer/02) *)

\* t := TrafficMenagement{p.Observable}: every such value is equal to t
TrafficMenagement == "t"

\* the ages passed to SetAge; main: NewPerson(15)
TmAges == 15..20
TmInitialAge == 15

\* TrafficMenagement.Notify on PropertyChange{"Age", value}: [subs, congrats, removed]
\* removed is the position of the element Unsubscribe took out of the list, 0 for none
TrafficMenagementNotify(subs, value) ==
    IF value >= 18
    THEN [subs |-> ObservableUnsubscribe(subs, TrafficMenagement),
          congrats |-> 1,
          removed |-> FirstIndexOf(subs, TrafficMenagement)]
    ELSE [subs |-> subs, congrats |-> 0, removed |-> 0]

RECURSIVE TmFireFrom(_, _, _, _)
\* Observable.Fire from position k on: [subs, congrats, notified]; when Notify
\* removed the element the loop stands on, z.Next() is nil and the loop ends
TmFireFrom(subs, k, value, acc) ==
    IF k > Len(subs) THEN [subs |-> subs, congrats |-> acc.congrats, notified |-> acc.notified]
    ELSE LET r == TrafficMenagementNotify(subs, value)
             acc1 == [congrats |-> acc.congrats + r.congrats, notified |-> acc.notified + 1]
         IN  IF r.removed = k
             THEN [subs |-> r.subs, congrats |-> acc1.congrats, notified |-> acc1.notified]
             ELSE IF r.removed /= 0 /\ r.removed < k
             THEN TmFireFrom(r.subs, k, value, acc1)
             ELSE TmFireFrom(r.subs, k + 1, value, acc1)

\* Observable.Fire
TmFire(subs, value) == TmFireFrom(subs, 1, value, [congrats |-> 0, notified |-> 0])

TmInit ==
    /\ tmSubs = << >>
    /\ tmAge = TmInitialAge
    /\ tmCongrats = 0
    /\ tmOp = [op |-> "none", notified |-> 0]

\* p.Subscribe(t)
TmSubscribe ==
    /\ Len(tmSubs) < MaxSubs
    /\ tmSubs' = ObservableSubscribe(tmSubs, TrafficMenagement)
    /\ tmOp' = [op |-> "Subscribe", notified |-> 0]
    /\ UNCHANGED <<tmAge, tmCongrats>>
    /\ UNCHANGED notTmVars

\* p.Unsubscribe(t), called by the client
TmUnsubscribe ==
    /\ tmSubs' = ObservableUnsubscribe(tmSubs, TrafficMenagement)
    /\ tmOp' = [op |-> "Unsubscribe", notified |-> 0]
    /\ UNCHANGED <<tmAge, tmCongrats>>
    /\ UNCHANGED notTmVars

\* p.SetAge(age): nothing when the age is the current one, else the
\* assignment and Fire(PropertyChange{"Age", age})
TmSetAge(age) ==
    /\ IF age = tmAge
       THEN /\ tmOp' = [op |-> "SetAge", notified |-> 0]
            /\ UNCHANGED <<tmSubs, tmAge, tmCongrats>>
       ELSE /\ tmAge' = age
            /\ tmSubs' = TmFire(tmSubs, age).subs
            /\ tmCongrats' = IF tmCongrats + TmFire(tmSubs, age).congrats <= MaxCongrats
                             THEN tmCongrats + TmFire(tmSubs, age).congrats
                             ELSE MaxCongrats
            /\ tmOp' = [op |-> "SetAge", notified |-> TmFire(tmSubs, age).notified]
    /\ UNCHANGED notTmVars

----------------------------------------------------------------------------
(* Property dependencies: Person.SetAge with CanVote (19_observer/03) *)

\* er := &ElectoralRoll{}
ElectoralRoll == "er"

\* the ages passed to SetAge; main: NewPerson(0)
ErAges == {0, 16, 17, 18, 19, 21}
ErInitialAge == 0

PropertyChange(name, value) == [Name |-> name, Value |-> value]

\* Person.CanVote
CanVote(age) == age >= 18

\* Observable.Fire: every subscriber, in list order, is notified of data;
\* ElectoralRoll.Notify changes no list
ErFire(subs, data) == [k \in 1..Len(subs) |-> [to |-> subs[k], data |-> data]]

\* the CanVote notification is fired before the Age notification
ErSetAgeFiresCanVoteFirst(age, new) ==
    IF new = age THEN << >>
    ELSE (IF CanVote(age) /= CanVote(new)
          THEN << PropertyChange("CanVote", CanVote(new)) >> ELSE << >>)
         \o << PropertyChange("Age", new) >>

\* Person.SetAge(new) of a person of the given age: the PropertyChanges it fires, in order
ErSetAgeFires(age, new) ==
    IF new = age THEN << >>
    ELSE << PropertyChange("Age", new) >>
         \o (IF CanVote(age) /= CanVote(new)
             THEN << PropertyChange("CanVote", CanVote(new)) >> ELSE << >>)

RECURSIVE ErDeliver(_, _)
\* the notifications delivered by the Fire calls of one SetAge
ErDeliver(subs, fired) ==
    IF fired = << >> THEN << >>
    ELSE ErFire(subs, Head(fired)) \o ErDeliver(subs, Tail(fired))

ErInit ==
    /\ erSubs = << >>
    /\ erAge = ErInitialAge
    /\ erFired = << >>
    /\ erNotified = << >>
    /\ erOp = [op |-> "none", age |-> 0]

\* p.Subscribe(er)
ErSubscribe ==
    /\ Len(erSubs) < MaxSubs
    /\ erSubs' = ObservableSubscribe(erSubs, ElectoralRoll)
    /\ erOp' = [op |-> "Subscribe", age |-> 0]
    /\ erFired' = << >>
    /\ erNotified' = << >>
    /\ UNCHANGED erAge
    /\ UNCHANGED notErVars

\* p.Unsubscribe(er)
ErUnsubscribe ==
    /\ erSubs' = ObservableUnsubscribe(erSubs, ElectoralRoll)
    /\ erOp' = [op |-> "Unsubscribe", age |-> 0]
    /\ erFired' = << >>
    /\ erNotified' = << >>
    /\ UNCHANGED erAge
    /\ UNCHANGED notErVars

\* p.SetAge(new)
ErSetAge(new) ==
    /\ erAge' = (IF new = erAge THEN erAge ELSE new)
    /\ erFired' = ErSetAgeFires(erAge, new)
    /\ erNotified' = ErDeliver(erSubs, ErSetAgeFires(erAge, new))
    /\ erOp' = [op |-> "SetAge", age |-> new]
    /\ UNCHANGED erSubs
    /\ UNCHANGED notErVars

----------------------------------------------------------------------------
(* Broker chain: Game, Creature, DoubleAttackModifier (part_011) *)

\* Argument
Attack == "Attack"
Defense == "Defense"

\* the arguments of NewCreature
CreatureNames == {"goblin", "orc"}
BaseAttacks == {2, 3}
BaseDefenses == {2}

\* Query{CreatureName, WhatToQuery, Value}
Query(name, what, value) == [CreatureName |-> name, WhatToQuery |-> what, Value |-> value]

\* DoubleAttackModifier.Handle of the modifier made for the creature c
DoubleAttackModifierHandle(cs, c, q) ==
    IF q.CreatureName = cs[c].Name /\ q.WhatToQuery = Attack
    THEN [q EXCEPT !.Value = @ * 2]
    ELSE q

RECURSIVE GameFire(_, _, _, _)
\* Game.Fire: Range over the observers, each handles the query
GameFire(cs, mods, obs, q) ==
    IF obs = {} THEN q
    ELSE LET d == CHOOSE x \in obs : TRUE
         IN  GameFire(cs, mods, obs \ {d}, DoubleAttackModifierHandle(cs, mods[d], q))

\* Creature.Attack
CreatureAttack(cs, mods, obs, c) ==
    GameFire(cs, mods, obs, Query(cs[c].Name, Attack, cs[c].attack)).Value

\* Creature.Defense
CreatureDefense(cs, mods, obs, c) ==
    GameFire(cs, mods, obs, Query(cs[c].Name, Defense, cs[c].defense)).Value

NoQuery == [op |-> "none", c |-> 0, value |-> 0]

BrokerInit ==
    /\ creatures = << >>
    /\ modifiers = << >>
    /\ observers = {}
    /\ brQuery = NoQuery

\* NewCreature(game, name, attack, defense)
NewCreature(name, attack, defense) ==
    /\ Len(creatures) < MaxCreatures
    /\ creatures' = Append(creatures, [Name |-> name, attack |-> attack, defense |-> defense])
    /\ brQuery' = NoQuery
    /\ UNCHANGED <<modifiers, observers>>
    /\ UNCHANGED notBrokerVars

\* NewDoubleAttackModifier(game, c): the new modifier is subscribed to the game
NewDoubleAttackModifier(c) ==
    /\ Len(modifiers) < MaxModifiers
    /\ modifiers' = Append(modifiers, c)
    /\ observers' = observers \cup {Len(modifiers) + 1}
    /\ brQuery' = NoQuery
    /\ UNCHANGED creatures
    /\ UNCHANGED notBrokerVars

\* d.Close(): game.Unsubscribe(d)
Close(d) ==
    /\ observers' = observers \ {d}
    /\ brQuery' = NoQuery
    /\ UNCHANGED <<creatures, modifiers>>
    /\ UNCHANGED notBrokerVars

\* c.Attack()
QueryAttack(c) ==
    /\ brQuery' = [op |-> Attack, c |-> c, value |-> CreatureAttack(creatures, modifiers, observers, c)]
    /\ UNCHANGED <<creatures, modifiers, observers>>
    /\ UNCHANGED notBrokerVars

\* c.Defense()
QueryDefense(c) ==
    /\ brQuery' = [op |-> Defense, c |-> c, value |-> CreatureDefense(creatures, modifiers, observers, c)]
    /\ UNCHANGED <<creatures, modifiers, observers>>
    /\ UNCHANGED notBrokerVars

----------------------------------------------------------------------------
(* Method chain: CreatureModifier and its three modifiers (13_chain_of_responsibility/01) *)

DoubleAttack == "DoubleAttackModifier"
IncreaseDefense == "IncreaseDefenseModifier"
NoBufs == "NoBufsModifier"
ModifierKinds == {DoubleAttack, IncreaseDefense, NoBufs}

\* goblin := NewCreature("Goblin", 1, 1)
Goblin == [Attack |-> 1, Defense |-> 1]

RECURSIVE ChainAddAt(_, _, _)
\* CreatureModifier.Add called on the k-th element of the list (0 is the
\* root): handed on while next is not nil, stored in next at the end
ChainAddAt(ch, k, m) ==
    IF k < Len(ch) THEN ChainAddAt(ch, k + 1, m) ELSE Append(ch, m)

RECURSIVE ChainHandleAt(_, _, _)

\* a NoBufsModifier.Handle that hands on to the next modifier
NoBufsModifierHandlePropagates(ch, k, c) == ChainHandleAt(ch, k + 1, c)

\* NoBufsModifier.Handle: the body is empty
NoBufsModifierHandle(ch, k, c) == c

\* DoubleAttackModifier.Handle
DoubleAttackModifierChainHandle(ch, k, c) ==
    ChainHandleAt(ch, k + 1, [c EXCEPT !.Attack = @ * 2])

\* IncreaseDefenseModifier.Handle
IncreaseDefenseModifierHandle(ch, k, c) ==
    ChainHandleAt(ch, k + 1, IF c.Attack <= 2 THEN [c EXCEPT !.Defense = @ + 1] ELSE c)

\* Handle of the k-th element of the list; CreatureModifier.Handle of the
\* element before it calls it when its next is not nil
ChainHandleAt(ch, k, c) ==
    IF k > Len(ch) THEN c
    ELSE CASE ch[k] = DoubleAttack -> DoubleAttackModifierChainHandle(ch, k, c)
           [] ch[k] = IncreaseDefense -> IncreaseDefenseModifierHandle(ch, k, c)
           [] ch[k] = NoBufs -> NoBufsModifierHandle(ch, k, c)

ChainInit ==
    /\ chain = << >>
    /\ goblin = Goblin
    /\ chainOp = "none"

\* root.Add(New...Modifier(goblin))
RootAdd(m) ==
    /\ Len(chain) < MaxChain
    /\ chain' = ChainAddAt(chain, 0, m)
    /\ chainOp' = "Add"
    /\ UNCHANGED goblin
    /\ UNCHANGED notChainVars

\* root.Handle()
RootHandle ==
    /\ goblin.Attack <= MaxAttack
    /\ goblin.Defense <= MaxDefense
    /\ goblin' = ChainHandleAt(chain, 1, goblin)
    /\ chainOp' = "Handle"
    /\ UNCHANGED chain
    /\ UNCHANGED notChainVars

----------------------------------------------------------------------------
(* Singleton: GetSingletonDB under sync.Once (part_002) *)

\* the goroutines that call GetSingletonDB
Goroutines == 1..MaxGoroutines

\* the outcomes of readData: the map, an error from os.Open, a panic after an
\* error from os.Executable
ReadOk == "ok"
ReadErr == "err"
ReadPanic == "panic"
ReadOutcomes == {ReadOk, ReadErr, ReadPanic}

\* var instance *singletonDatabase
Nil == "nil"

\* instance = &db, with db.capitals set only when readData returned no error
NewInstance(outcome) == IF outcome = ReadOk THEN "db with capitals" ELSE "db without capitals"

OnceInit ==
    /\ oncePc = [g \in Goroutines |-> "idle"]
    /\ onceDone = FALSE
    /\ onceM = 0
    /\ instance = Nil
    /\ inits = 0
    /\ ret = [g \in Goroutines |-> "none"]
    /\ crashed = FALSE

\* g calls GetSingletonDB()
OnceCall(g) ==
    /\ ~crashed
    /\ oncePc[g] = "idle"
    /\ oncePc' = [oncePc EXCEPT ![g] = "load"]
    /\ ret' = [ret EXCEPT ![g] = "none"]
    /\ UNCHANGED <<onceDone, onceM, instance, inits, crashed>>
    /\ UNCHANGED notOnceVars

\* once.Do: if o.done.Load() == 0 { o.doSlow(f) }
OnceLoad(g) ==
    /\ ~crashed
    /\ oncePc[g] = "load"
    /\ oncePc' = [oncePc EXCEPT ![g] = IF onceDone THEN "return" ELSE "lock"]
    /\ UNCHANGED <<onceDone, onceM, instance, inits, ret, crashed>>
    /\ UNCHANGED notOnceVars

\* doSlow: o.m.Lock()
OnceLock(g) ==
    /\ ~crashed
    /\ oncePc[g] = "lock"
    /\ onceM = 0
    /\ onceM' = g
    /\ oncePc' = [oncePc EXCEPT ![g] = "slow"]
    /\ UNCHANGED <<onceDone, instance, inits, ret, crashed>>
    /\ UNCHANGED notOnceVars

\* doSlow: if o.done.Load() == 0 { defer o.done.Store(1); f() }
OnceSlow(g) ==
    /\ ~crashed
    /\ oncePc[g] = "slow"
    /\ oncePc' = [oncePc EXCEPT ![g] = IF onceDone THEN "unlock" ELSE "f"]
    /\ UNCHANGED <<onceDone, onceM, instance, inits, ret, crashed>>
    /\ UNCHANGED notOnceVars

\* f(): the function passed to once.Do; a panic of readData is recovered
\* nowhere and ends the program
OnceF(g, outcome) ==
    /\ ~crashed
    /\ oncePc[g] = "f"
    /\ IF outcome = ReadPanic
       THEN /\ crashed' = TRUE
            /\ oncePc' = [oncePc EXCEPT ![g] = "panicked"]
            /\ UNCHANGED <<instance, inits>>
       ELSE /\ instance' = NewInstance(outcome)
            /\ inits' = inits + 1
            /\ oncePc' = [oncePc EXCEPT ![g] = "store"]
            /\ UNCHANGED crashed
    /\ UNCHANGED <<onceDone, onceM, ret>>
    /\ UNCHANGED notOnceVars

\* the deferred o.done.Store(1)
OnceStore(g) ==
    /\ ~crashed
    /\ oncePc[g] = "store"
    /\ onceDone' = TRUE
    /\ oncePc' = [oncePc EXCEPT ![g] = "unlock"]
    /\ UNCHANGED <<onceM, instance, inits, ret, crashed>>
    /\ UNCHANGED notOnceVars

\* the deferred o.m.Unlock()
OnceUnlock(g) ==
    /\ ~crashed
    /\ oncePc[g] = "unlock"
    /\ onceM' = 0
    /\ oncePc' = [oncePc EXCEPT ![g] = "return"]
    /\ UNCHANGED <<onceDone, instance, inits, ret, crashed>>
    /\ UNCHANGED notOnceVars

\* return instance
OnceReturn(g) ==
    /\ ~crashed
    /\ oncePc[g] = "return"
    /\ ret' = [ret EXCEPT ![g] = instance]
    /\ oncePc' = [oncePc EXCEPT ![g] = "idle"]
    /\ UNCHANGED <<onceDone, onceM, instance, inits, crashed>>
    /\ UNCHANGED notOnceVars

----------------------------------------------------------------------------
(* Virtual proxy: LazyBitmap (part_014) *)

\* the arguments of NewLazyBitmap
Filenames == {"demo.png", "lazy-demo.png"}

\* a line of output; l is the LazyBitmap whose Draw printed it, 0 for none
Line(text, file, l) == [text |-> text, file |-> file, l |-> l]

\* NewBitmap(filename): prints "Loading the image from", returns &Bitmap{filename}
NewBitmap(filename, l) ==
    [bitmap |-> filename, out |-> << Line("Loading the image from", filename, l) >>]

\* Bitmap.Draw: prints "Drawing image"
BitmapDraw(bitmap, l) == << Line("Drawing image", bitmap, l) >>

\* NewLazyBitmap(filename): the bitmap field is left nil
NewLazyBitmap(filename) == [filename |-> filename, bitmap |-> Nil]

\* a LazyBitmap.Draw that makes the bitmap on every call
LazyBitmapDrawReloads(lb, l) ==
    [lb |-> [lb EXCEPT !.bitmap = NewBitmap(lb.filename, l).bitmap],
     out |-> NewBitmap(lb.filename, l).out \o BitmapDraw(NewBitmap(lb.filename, l).bitmap, l)]

\* LazyBitmap.Draw: the bitmap is made when the field is nil, then drawn
LazyBitmapDraw(lb, l) ==
    IF lb.bitmap = Nil
    THEN [lb |-> [lb EXCEPT !.bitmap = NewBitmap(lb.filename, l).bitmap],
          out |-> NewBitmap(lb.filename, l).out \o BitmapDraw(NewBitmap(lb.filename, l).bitmap, l)]
    ELSE [lb |-> lb, out |-> BitmapDraw(lb.bitmap, l)]

\* DrawImage(image) for a LazyBitmap
DrawImage(lb, l) ==
    [lb |-> LazyBitmapDraw(lb, l).lb,
     out |-> << Line("About to draw the image", "", 0) >>
             \o LazyBitmapDraw(lb, l).out
             \o << Line("Done drawing the image", "", 0) >>]

ProxyInit ==
    /\ lazies = << >>
    /\ out = << >>

\* nbmp := NewLazyBitmap(filename)
ClientNewLazyBitmap(filename) ==
    /\ Len(lazies) < MaxLazies
    /\ lazies' = Append(lazies, NewLazyBitmap(filename))
    /\ UNCHANGED out
    /\ UNCHANGED notProxyVars

\* nbmp.Draw()
ClientDraw(l) ==
    /\ Len(out) + Len(LazyBitmapDraw(lazies[l], l).out) <= MaxOutput
    /\ lazies' = [lazies EXCEPT ![l] = LazyBitmapDraw(lazies[l], l).lb]
    /\ out' = out \o LazyBitmapDraw(lazies[l], l).out
    /\ UNCHANGED notProxyVars

\* DrawImage(nbmp)
ClientDrawImage(l) ==
    /\ Len(out) + Len(DrawImage(lazies[l], l).out) <= MaxOutput
    /\ lazies' = [lazies EXCEPT ![l] = DrawImage(lazies[l], l).lb]
    /\ out' = out \o DrawImage(lazies[l], l).out
    /\ UNCHANGED notProxyVars

----------------------------------------------------------------------------
(* Specification *)

Init == PhoneInit /\ LockInit /\ BankInit /\ TmInit /\ ErInit /\ BrokerInit /\ ChainInit /\ OnceInit /\ ProxyInit

\* the phone-call driver
PhoneNext ==
    \/ \E line \in Lines : PhoneSelect(line)
    \/ \E line \in Lines : PhonePanic(line)

PhoneSpec == Init /\ [][PhoneNext]_vars

\* the combination lock
LockNext ==
    \/ \E r \in Runes : LockedStep(r)
    \/ FailedStep
    \/ UnlockedStep

LockSpec == Init /\ [][LockNext]_vars

\* the lock's loop never blocks in the Failed case: it prints and goes on
LockFairSpec == LockSpec /\ WF_vars(FailedStep)

\* a client of the accounts and of single commands
CommandNext ==
    \/ \E a \in Accounts, amount \in Amounts : ClientDeposit(a, amount)
    \/ \E a \in Accounts, amount \in Amounts : ClientWithdraw(a, amount)
    \/ \E a \in Accounts, action \in {Deposit, Withdraw}, amount \in Amounts :
            NewBankAccountCommand(a, action, amount)
    \/ \E k \in 1..MaxCommands : CallCommand(k)
    \/ \E k \in 1..MaxCommands : UndoCommand(k)

CommandSpec == Init /\ [][CommandNext]_vars

\* a client of the accounts and of the money transfer
TransferNext ==
    \/ \E a \in Accounts, amount \in Amounts : ClientDeposit(a, amount)
    \/ \E a \in Accounts, amount \in Amounts : ClientWithdraw(a, amount)
    \/ \E f \in Accounts, t \in Accounts, amount \in Amounts : NewMoneyTransferCommand(f, t, amount)
    \/ TransferCall
    \/ TransferUndo

TransferSpec == Init /\ [][TransferNext]_vars

\* a client of the Person observed by the traffic management
TrafficNext ==
    \/ TmSubscribe
    \/ TmUnsubscribe
    \/ \E age \in TmAges : TmSetAge(age)

TrafficSpec == Init /\ [][TrafficNext]_vars

\* a client of the Person observed by the electoral roll
VoteNext ==
    \/ ErSubscribe
    \/ ErUnsubscribe
    \/ \E age \in ErAges : ErSetAge(age)

VoteSpec == Init /\ [][VoteNext]_vars

\* a client of the game
BrokerNext ==
    \/ \E name \in CreatureNames, attack \in BaseAttacks, defense \in BaseDefenses :
          NewCreature(name, attack, defense)
    \/ \E c \in 1..Len(creatures) : NewDoubleAttackModifier(c)
    \/ \E d \in 1..Len(modifiers) : Close(d)
    \/ \E c \in 1..Len(creatures) : QueryAttack(c)
    \/ \E c \in 1..Len(creatures) : QueryDefense(c)

BrokerSpec == Init /\ [][BrokerNext]_vars

\* a client of the method chain
ChainNext ==
    \/ \E m \in ModifierKinds : RootAdd(m)
    \/ RootHandle

ChainSpec == Init /\ [][ChainNext]_vars

\* goroutines calling GetSingletonDB again and again
OnceNext ==
    \E g \in Goroutines :
        \/ OnceCall(g)
        \/ OnceLoad(g)
        \/ OnceLock(g)
        \/ OnceSlow(g)
        \/ \E outcome \in ReadOutcomes : OnceF(g, outcome)
        \/ OnceStore(g)
        \/ OnceUnlock(g)
        \/ OnceReturn(g)

OnceSpec == Init /\ [][OnceNext]_vars

\* a client of the lazy bitmaps
ProxyNext ==
    \/ \E filename \in Filenames : ClientNewLazyBitmap(filename)
    \/ \E l \in 1..Len(lazies) : ClientDraw(l)
    \/ \E l \in 1..Len(lazies) : ClientDrawImage(l)

ProxySpec == Init /\ [][ProxyNext]_vars

----------------------------------------------------------------------------
(* Phone call: properties *)

\* the line names an entry of the menu printed for state s
NamesEntry(line, s) == \E k \in DOMAIN Menu(s) : line = Menu(s)[k].label

\* the destinations listed under s
Destinations(s) == { RulesAt(s)[k].State : k \in 1..Len(RulesAt(s)) }

\* the destination of the first entry of rules[s] whose trigger is t, in
\* declaration order
FirstMatch(s, t) ==
    LET hits == { k \in 1..Len(RulesAt(s)) : RulesAt(s)[k].Trigger = t }
    IN  IF hits = {} THEN "NoSuchTransition"
        ELSE RulesAt(s)[CHOOSE k \in hits : \A j \in hits : k <= j].State

RECURSIVE Closure(_)
\* the states reachable from the states of S along declared rules
Closure(S) ==
    LET T == S \cup UNION { Destinations(s) : s \in S }
    IN  IF T = S THEN S ELSE Closure(T)

\* C1 (as claimed): an iteration whose line does not name an entry of the
\* menu of the current state leaves the current state as it was.
C1_RejectedSelectionKeepsState ==
    [][~NamesEntry(input', state) => state' = state]_phoneVars

\* C2: whenever the machine changes state from s on the selected trigger t
\* (tr.Trigger), the new state is the destination of every entry of rules[s]
\* that carries t, it is listed under s, and from the initial state the only
\* move is CallDialed to Connecting.
C2_MovesOnlyAlongRules ==
    [][state' /= state =>
          /\ \E k \in 1..Len(RulesAt(state)) : RulesAt(state)[k] = tr'
          /\ \A k \in 1..Len(RulesAt(state)) :
                RulesAt(state)[k].Trigger = tr'.Trigger => state' = RulesAt(state)[k].State
          /\ state' \in Destinations(state)
          /\ (state = OffHook => tr'.Trigger = CallDialed /\ state' = Connecting)
      ]_phoneVars

C2_Witness == state = Connecting /\ tr = TriggerResult(CallDialed, Connecting)

\* C3 (as claimed): a selection that is undefined for the current state never
\* makes the program panic.
C3_NeverPanics == phonePc /= "panic"

\* C7: a state has no entry in rules exactly when it is OnHook, OnHook is the
\* exit state, and the driver has left its loop normally exactly when the
\* current state has no entry in rules.
C7_TerminalIsExit ==
    /\ \A s \in States : (Len(RulesAt(s)) = 0) <=> (s = OnHook)
    /\ exitState = OnHook
    /\ (phonePc = "done") <=> (Len(RulesAt(state)) = 0)
    /\ (phonePc = "done") <=> (state = exitState)

C7_Witness == phonePc = "done" /\ state = OnHook /\ Len(RulesAt(state)) = 0

\* C8: from every state the machine reaches, OnHook is reachable along
\* declared rules; and the run OffHook --CallDialed--> Connecting --HungUp-->
\* ends in OnHook, which is not the state it started in, and ends the driver.
C8_ExitReachable ==
    /\ [](OnHook \in Closure({state}))
    /\ [][ (/\ state = Connecting
            /\ tr = TriggerResult(CallDialed, Connecting)
            /\ state' /= state
            /\ tr'.Trigger = HungUp)
           => (state' = OnHook /\ state' /= initialState /\ phonePc' = "done") ]_phoneVars

C8_Witness == state = OnHook /\ tr = TriggerResult(HungUp, OnHook) /\ phonePc = "done"

C10_NeverOutsideTable == state \in DOMAIN rules

----------------------------------------------------------------------------
(* Combination lock: properties *)

\* e is a prefix of c
IsPrefix(e, c) == Len(e) <= Len(c) /\ SubSeq(c, 1, Len(e)) = e

\* C4: from Locked, appending the next rune of the code to an entry that is a
\* proper prefix of the code keeps the lock Locked until the entry is the
\* whole code and then unlocks it; the lock becomes Unlocked only from Locked
\* and only in the step that makes the entry equal to the code; once Unlocked,
\* the only step is the return.
C4_UnlocksExactlyOnCode ==
    /\ [](lockState = Unlocked => entry = code)
    /\ [][ /\ (lockState /= Unlocked /\ lockState' = Unlocked)
                => (lockState = Locked /\ entry /= code /\ entry' = code)
           /\ (/\ lockState = Locked
               /\ IsPrefix(entry, code)
               /\ Len(entry) < Len(code)
               /\ entry' = Append(entry, code[Len(entry) + 1]))
                => lockState' = (IF Len(entry') = Len(code) THEN Unlocked ELSE Locked)
           /\ lockState = Unlocked
                => (lockState' = Unlocked /\ entry' = entry /\ lockPc' = "done")
         ]_lockVars

C4_Witness == lockState = Unlocked /\ entry = code /\ lockPc = "done" /\ failedPrints = 0

\* C5: while Locked the entry is a proper prefix of the code; the rune that
\* makes it stop being a prefix moves the lock to Failed in that very step,
\* and a rune that keeps it a proper prefix leaves the lock Locked.
C5_WrongRuneFails ==
    /\ [](lockState = Locked => (IsPrefix(entry, code) /\ entry /= code))
    /\ [][lockState = Locked =>
            /\ \E r \in Runes : entry' = Append(entry, r)
            /\ ~IsPrefix(entry', code) => lockState' = Failed
            /\ (IsPrefix(entry', code) /\ entry' /= code) => lockState' = Locked
         ]_lockVars

C5_Witness == lockState = Failed /\ entry = <<"1", "2", "5">>

\* C6: the only step from Failed goes to Locked with the entry cleared, the
\* lock does leave Failed, and the code entered after a failure unlocks.
C6_FailedResets ==
    /\ [][lockState = Failed => (lockState' = Locked /\ entry' = << >> /\ lockPc' = "loop")]_lockVars
    /\ (lockState = Failed ~> (lockState = Locked /\ entry = << >>))
    /\ [][(failedPrints > 0 /\ lockState = Locked /\ entry' = code) => lockState' = Unlocked]_lockVars

C6_Witness == lockState = Unlocked /\ entry = code /\ failedPrints > 0

----------------------------------------------------------------------------
(* Bank: properties *)

\* C11: a Call of the money transfer either takes the amount from the source
\* and adds it to the target, marking both sub-commands succeeded, or, when
\* the withdrawal is refused, changes no balance and leaves both sub-commands
\* marked as not succeeded.
C11_TransferAllOrNothing ==
    [][bankOp'.op = "TransferCall" =>
        \/ /\ balance[mtc.from] - mtc.amount >= overdraftLimit
           /\ balance' = IF mtc.from = mtc.to THEN balance
                         ELSE [balance EXCEPT ![mtc.from] = @ - mtc.amount,
                                              ![mtc.to] = @ + mtc.amount]
           /\ mtc'.commands[1].succeeded /\ mtc'.commands[2].succeeded
        \/ /\ balance[mtc.from] - mtc.amount < overdraftLimit
           /\ balance' = balance
           /\ ~mtc'.commands[1].succeeded /\ ~mtc'.commands[2].succeeded
      ]_bankVars

C11_Witness ==
    /\ bankOp.op = "TransferCall"
    /\ mtc.from /= mtc.to
    /\ balance[mtc.from] - mtc.amount < overdraftLimit
    /\ ~mtc.commands[1].succeeded /\ ~mtc.commands[2].succeeded

\* C12: an Undo of a command whose succeeded flag is not set, because its
\* Call was refused or was never made, leaves every balance as it was.
C12_UndoOfFailedIsNoOp ==
    [][(bankOp'.op = "Undo" /\ ~commands[bankOp'.k].succeeded) => balance' = balance]_bankVars

C12_Witness ==
    /\ bankOp.op = "Undo"
    /\ bankOp.called
    /\ commands[bankOp.k].action = Withdraw
    /\ ~commands[bankOp.k].succeeded

\* C13 (as claimed): no sequence of deposits and withdrawals takes the
\* balance of an account that started at or above the overdraft limit below
\* that limit.
C13_NeverBelowOverdraftLimit == \A a \in Accounts : balance[a] >= overdraftLimit

----------------------------------------------------------------------------
(* Observers: properties *)

\* C14 (as claimed): after Unsubscribe(x) has returned, x is not in the list
\* of subscribers, however often x had been subscribed.
C14_UnsubscribedIsGone ==
    tmOp.op = "Unsubscribe" => \A k \in 1..Len(tmSubs) : tmSubs[k] /= TrafficMenagement

\* C15: a SetAge with the current age changes nothing and fires nothing; any
\* other SetAge stores the age and fires "Age" with it first; it fires
\* "CanVote" exactly when the new age is on the other side of 18 than the old
\* one, after "Age", carrying the new voting status; every subscriber is
\* notified of "Age" before any is notified of "CanVote".
C15_CanVoteFiredOnCrossing ==
    [][erOp'.op = "SetAge" =>
        LET new == erOp'.age
            crossing == (erAge >= 18) /= (new >= 18)
        IN  /\ new = erAge => (erAge' = erAge /\ erFired' = << >> /\ erNotified' = << >>)
            /\ new /= erAge =>
                 /\ erAge' = new
                 /\ erFired'[1] = PropertyChange("Age", new)
                 /\ crossing => erFired' = << PropertyChange("Age", new),
                                              PropertyChange("CanVote", new >= 18) >>
                 /\ ~crossing => erFired' = << PropertyChange("Age", new) >>
                 /\ Len(erNotified') = Len(erSubs) * Len(erFired')
                 /\ \A j, k \in 1..Len(erNotified') :
                       (erNotified'[j].data.Name = "CanVote" /\ erNotified'[k].data.Name = "Age")
                          => k < j
      ]_erVars

C15_Witness ==
    /\ erOp = [op |-> "SetAge", age |-> 17]
    /\ erAge = 17
    /\ Len(erSubs) = 2
    /\ erNotified = << [to |-> ElectoralRoll, data |-> PropertyChange("Age", 17)],
                       [to |-> ElectoralRoll, data |-> PropertyChange("Age", 17)],
                       [to |-> ElectoralRoll, data |-> PropertyChange("CanVote", FALSE)],
                       [to |-> ElectoralRoll, data |-> PropertyChange("CanVote", FALSE)] >>

----------------------------------------------------------------------------
(* Broker chain: properties *)

RECURSIVE Pow2(_)
Pow2(n) == IF n = 0 THEN 1 ELSE 2 * Pow2(n - 1)

\* the modifiers subscribed to the game that were made for the creature c
SubscribedFor(c) == {d \in observers : modifiers[d] = c}

\* C16 (as claimed): Attack() is the stored base attack doubled once for every
\* DoubleAttackModifier subscribed to the game for that creature, and
\* Defense() is the stored base defense.
C16_AttackDoubledPerModifier ==
    /\ brQuery.op = Attack =>
         brQuery.value = creatures[brQuery.c].attack * Pow2(Cardinality(SubscribedFor(brQuery.c)))
    /\ brQuery.op = Defense => brQuery.value = creatures[brQuery.c].defense

----------------------------------------------------------------------------
(* Method chain: properties *)

\* the effect of one modifier on the creature
Effect(m, c) ==
    CASE m = DoubleAttack -> [c EXCEPT !.Attack = 2 * c.Attack]
      [] m = IncreaseDefense -> (IF c.Attack <= 2 THEN [c EXCEPT !.Defense = c.Defense + 1] ELSE c)
      [] m = NoBufs -> c

RECURSIVE ApplyInOrder(_, _)
\* the effects of the modifiers of ms, first to last
ApplyInOrder(ms, c) ==
    IF ms = << >> THEN c ELSE ApplyInOrder(Tail(ms), Effect(Head(ms), c))

\* the modifiers added before the first NoBufsModifier
BeforeNoBufs(ms) ==
    IF \E k \in 1..Len(ms) : ms[k] = NoBufs
    THEN SubSeq(ms, 1, (CHOOSE k \in 1..Len(ms) :
                          ms[k] = NoBufs /\ \A j \in 1..(k - 1) : ms[j] /= NoBufs) - 1)
    ELSE ms

\* C17: root.Handle() leaves the creature as the modifiers added before the
\* first NoBufsModifier make it, applied in the order in which they were
\* added; no modifier added after a NoBufsModifier changes the creature.
C17_HandleInOrderUntilNoBufs ==
    [][chainOp' = "Handle" => goblin' = ApplyInOrder(BeforeNoBufs(chain), goblin)]_chainVars

C17_Witness ==
    /\ chainOp = "Handle"
    /\ chain = << DoubleAttack, NoBufs, IncreaseDefense >>
    /\ goblin = [Attack |-> 2, Defense |-> 1]

----------------------------------------------------------------------------
(* Singleton: properties *)

\* C18 (as claimed): under any interleaving the database is initialised at
\* most once and only after a call has begun, and every call ends by
\* returning the one instance, which is not nil.
C18_OneInstanceForEveryCall ==
    /\ inits <= 1
    /\ (inits = 1 => \E g \in Goroutines : oncePc[g] /= "idle" \/ ret[g] /= "none")
    /\ \A g \in Goroutines : oncePc[g] /= "panicked"
    /\ \A g \in Goroutines : ret[g] /= "none" => (ret[g] /= Nil /\ ret[g] = instance)

----------------------------------------------------------------------------
(* Virtual proxy: properties *)

\* the positions of the output where the LazyBitmap l loaded, and where it drew
LoadsOf(l) == {k \in 1..Len(out) : out[k].l = l /\ out[k].text = "Loading the image from"}
DrawsOf(l) == {k \in 1..Len(out) : out[k].l = l /\ out[k].text = "Drawing image"}

\* C19: a LazyBitmap that has not drawn has loaded nothing and holds no
\* bitmap; one that has drawn loaded its own file exactly once, directly
\* before its first drawing, however often it drew.
C19_LoadedOnceOnFirstDraw ==
    \A l \in 1..Len(lazies) :
        /\ DrawsOf(l) = {} => (LoadsOf(l) = {} /\ lazies[l].bitmap = Nil)
        /\ DrawsOf(l) /= {} =>
             /\ Cardinality(LoadsOf(l)) = 1
             /\ \A k \in LoadsOf(l) :
                   /\ out[k].file = lazies[l].filename
                   /\ k + 1 \in DrawsOf(l)
                   /\ \A d \in DrawsOf(l) : k < d
             /\ lazies[l].bitmap = lazies[l].filename

C19_Witness ==
    \E l \in 1..Len(lazies) : Cardinality(DrawsOf(l)) >= 3 /\ Cardinality(LoadsOf(l)) = 1

====
